---- MODULE Spec2Model ----
(***************************************************************************)
(* The lead-scraper client, static/script.js (class GoogleMapsLeadScraper), *)
(* as a state machine: the DOM elements it writes, the held leads, and the  *)
(* asynchronous startScraping calls with their two await points.            *)
(*                                                                          *)
(* Text is a sequence of one-character strings, so that quoting, joining    *)
(* and parsing are computed character by character.  An optional JavaScript *)
(* value is Undefined (<<>>) or Some(v) (<<v>>).  A rating is held in       *)
(* tenths (45 is 4.5).                                                      *)
(***************************************************************************)
EXTENDS Integers, Sequences, FiniteSets, TLC

----------------------------------------------------------------------------
(* Bounds *)

MaxListings == 2        \* raw listings the provider yields for one request
MaxCalls == 2           \* startScraping calls that may overlap
MaxSuccessDivs == 1     \* success banners pending their 3 s removal

----------------------------------------------------------------------------
(* JavaScript values *)

Undefined == <<>>
Some(v) == <<v>>

\* Truthiness of an optional string: undefined and "" are falsy.
TruthyText(o) == o # Undefined /\ o[1] # <<>>

\* Truthiness of an optional number: undefined and 0 are falsy.
TruthyNum(o) == o # Undefined /\ o[1] # 0

\* `x || ''` on an optional string.
TextOrEmpty(o) == IF TruthyText(o) THEN o[1] ELSE <<>>

DigitChars == <<"0", "1", "2", "3", "4", "5", "6", "7", "8", "9">>

\* String(n) for a non-negative integer.
RECURSIVE NatToText(_)
NatToText(n) ==
    IF n < 10 THEN <<DigitChars[n + 1]>>
    ELSE NatToText(n \div 10) \o <<DigitChars[(n % 10) + 1]>>

\* String(r) for a rating held in tenths: 45 -> "4.5", 50 -> "5", 0 -> "0".
RatingToText(t) ==
    IF t % 10 = 0 THEN NatToText(t \div 10)
    ELSE NatToText(t \div 10) \o <<".">> \o <<DigitChars[(t % 10) + 1]>>

\* Array.prototype.join on texts.
RECURSIVE Join(_, _)
Join(parts, sep) ==
    IF Len(parts) = 0 THEN <<>>
    ELSE IF Len(parts) = 1 THEN parts[1]
    ELSE parts[1] \o sep \o Join(Tail(parts), sep)

----------------------------------------------------------------------------
(* exportToCSV: the CSV text *)

headers ==
    << <<"N", "a", "m", "e">>,
       <<"A", "d", "d", "r", "e", "s", "s">>,
       <<"P", "h", "o", "n", "e">>,
       <<"W", "e", "b", "s", "i", "t", "e">>,
       <<"R", "a", "t", "i", "n", "g">>,
       <<"R", "e", "v", "i", "e", "w", "s">>,
       <<"C", "a", "t", "e", "g", "o", "r", "y">> >>

\* `"${x}"`: wrapped in double quotes, nothing escaped.
Quoted(t) == <<"\"">> \o t \o <<"\"">>

\* `lead.rating || ''` as joined into the row.
RatingField(o) == IF TruthyNum(o) THEN RatingToText(o[1]) ELSE <<>>

\* `lead.reviews_count || ''` as joined into the row.
ReviewsField(o) == IF TruthyNum(o) THEN NatToText(o[1]) ELSE <<>>

csvRow(lead) ==
    Join(<< Quoted(lead.name),
            Quoted(TextOrEmpty(lead.address)),
            Quoted(TextOrEmpty(lead.phone)),
            Quoted(TextOrEmpty(lead.website)),
            RatingField(lead.rating),
            ReviewsField(lead.reviews_count),
            Quoted(TextOrEmpty(lead.category)) >>, <<",">>)

csvContent(ls) ==
    Join(<<Join(headers, <<",">>)>> \o [i \in 1..Len(ls) |-> csvRow(ls[i])],
         <<"\n">>)

----------------------------------------------------------------------------
(* An RFC 4180 reader, used to state the round trip of the exported text.  *)
(* Records end at a line break; a field is either bare (no double quote in *)
(* it) or enclosed in double quotes with every inner double quote doubled. *)

ParseFailure == [ok |-> FALSE, rows |-> <<>>]

QuotesIn(t, from, to) == Cardinality({k \in from..to : t[k] = "\""})

Least(S) == CHOOSE j \in S : \A k \in S : j <= k

\* The content of an enclosed field: of every doubled double quote, one.
Unescape(content) ==
    LET kept == {k \in 1..Len(content) :
                    content[k] # "\"" \/ QuotesIn(content, 1, k) % 2 = 1}
    IN [m \in 1..Cardinality(kept) |->
           content[CHOOSE k \in kept : Cardinality({x \in kept : x <= k}) = m]]

\* Reads the field that starts at position i, then goes on after its delimiter.
RECURSIVE ParseFields(_, _, _, _)
ParseFields(t, i, row, rows) ==
    LET n == Len(t)
        after(field, next) ==    \* next: the position after the field's last character
            IF next > n THEN [ok |-> TRUE, rows |-> Append(rows, Append(row, field))]
            ELSE IF t[next] = "," THEN ParseFields(t, next + 1, Append(row, field), rows)
            ELSE IF t[next] = "\n"
                 THEN ParseFields(t, next + 1, <<>>, Append(rows, Append(row, field)))
            ELSE ParseFailure
    IN IF i > n THEN after(<<>>, i)
       ELSE IF t[i] = "\""
       THEN LET closing == {j \in (i + 1)..n :
                               /\ t[j] = "\""
                               /\ QuotesIn(t, i + 1, j) % 2 = 1
                               /\ (j = n \/ t[j + 1] # "\"")}
            IN IF closing = {} THEN ParseFailure
               ELSE after(Unescape(SubSeq(t, i + 1, Least(closing) - 1)),
                          Least(closing) + 1)
       ELSE LET ends == {e \in i..n : t[e] \in {",", "\n"}} \cup {n + 1}
            IN IF QuotesIn(t, i, Least(ends) - 1) > 0 THEN ParseFailure
               ELSE after(SubSeq(t, i, Least(ends) - 1), Least(ends))

ParseCSV(t) == ParseFields(t, 1, <<>>, <<>>)

\* The fields a reader of the export is to get back for one lead.
RowFields(lead) ==
    << lead.name, TextOrEmpty(lead.address), TextOrEmpty(lead.phone),
       TextOrEmpty(lead.website),
       IF lead.rating = Undefined THEN <<>> ELSE RatingToText(lead.rating[1]),
       IF lead.reviews_count = Undefined THEN <<>> ELSE NatToText(lead.reviews_count[1]),
       TextOrEmpty(lead.category) >>

TextColumns == {1, 2, 3, 4, 7}

----------------------------------------------------------------------------
(* The /scrape backend (app.py, scraper.py), which is not among the sources *)
(* at hand: collector and stats aggregator as the specification gives them. *)

UpperCase == <<"A", "B", "C", "D", "E", "F", "G", "H", "I", "J", "K", "L", "M",
               "N", "O", "P", "Q", "R", "S", "T", "U", "V", "W", "X", "Y", "Z">>
LowerCase == <<"a", "b", "c", "d", "e", "f", "g", "h", "i", "j", "k", "l", "m",
               "n", "o", "p", "q", "r", "s", "t", "u", "v", "w", "x", "y", "z">>

ToLower(c) ==
    IF \E k \in 1..26 : UpperCase[k] = c
    THEN LowerCase[CHOOSE k \in 1..26 : UpperCase[k] = c]
    ELSE c

IsSpace(c) == c \in {" ", "\t", "\n"}

\* Runs of whitespace become one space; leading whitespace is dropped.
RECURSIVE CollapseFrom(_, _, _)
CollapseFrom(t, i, out) ==
    IF i > Len(t) THEN out
    ELSE IF IsSpace(t[i])
         THEN IF out = <<>> \/ out[Len(out)] = " "
              THEN CollapseFrom(t, i + 1, out)
              ELSE CollapseFrom(t, i + 1, Append(out, " "))
         ELSE CollapseFrom(t, i + 1, Append(out, ToLower(t[i])))

\* Case-insensitive, whitespace-collapsed, trimmed.
Normalize(t) ==
    LET c == CollapseFrom(t, 1, <<>>)
    IN IF c # <<>> /\ c[Len(c)] = " " THEN SubSeq(c, 1, Len(c) - 1) ELSE c

IdentityKey(lead) == <<Normalize(lead.name), Normalize(TextOrEmpty(lead.address))>>

\* Collector: drops listings without a name and later duplicates of a key,
\* and stops at maxResults.
RECURSIVE collectFrom(_, _, _, _)
collectFrom(raw, i, maxResults, acc) ==
    IF i > Len(raw) \/ Len(acc) >= maxResults THEN acc
    ELSE IF raw[i].name = <<>>
            \/ \E j \in 1..Len(acc) : IdentityKey(acc[j]) = IdentityKey(raw[i])
         THEN collectFrom(raw, i + 1, maxResults, acc)
         ELSE collectFrom(raw, i + 1, maxResults, Append(acc, raw[i]))

collect(raw, maxResults) == collectFrom(raw, 1, maxResults, <<>>)

summarize(ls) ==
    [total |-> Len(ls),
     with_phone |-> Cardinality({i \in 1..Len(ls) : TruthyText(ls[i].phone)}),
     with_website |-> Cardinality({i \in 1..Len(ls) : TruthyText(ls[i].website)})]

ParseDigit(c) == (CHOOSE k \in 1..10 : DigitChars[k] = c) - 1

\* The integer a text of decimal digits denotes.
RECURSIVE ParseNat(_)
ParseNat(t) ==
    IF t = <<>> THEN 0
    ELSE 10 * ParseNat(SubSeq(t, 1, Len(t) - 1)) + ParseDigit(t[Len(t)])

SystemMaxResults == 500

\* maxResults clamped into 1..SystemMaxResults.
ClampMaxResults(n) ==
    IF n < 1 THEN 1 ELSE IF n > SystemMaxResults THEN SystemMaxResults ELSE n

----------------------------------------------------------------------------
(* The provider's listings and the user's form input *)

Lead(name, address, phone, website, rating, reviews_count, category) ==
    [name |-> name, address |-> address, phone |-> phone, website |-> website,
     rating |-> rating, reviews_count |-> reviews_count, category |-> category]

\* Raw listings the provider may yield: a listing; a re-spelling of it with
\* the same identity key; one without a name; and one of the same name at
\* another address, with rating 0, no reviews, an empty phone, and texts that
\* hold a double quote, a comma and a line break.
RawListings ==
    { Lead(<<"J", "o">>, Some(<<"1", " ", "M">>), Some(<<"5">>), Undefined,
           Some(45), Some(12), Some(<<"c">>)),
      Lead(<<"j", "o">>, Some(<<"1", " ", " ", "m">>), Undefined, Some(<<"w">>),
           Undefined, Undefined, Undefined),
      Lead(<<>>, Some(<<"X">>), Undefined, Undefined, Undefined, Undefined, Undefined),
      Lead(<<"J", "o">>, Some(<<"2", "\"", "M">>), Some(<<>>), Undefined,
           Some(0), Some(0), Some(<<",", "\n">>)) }

RECURSIVE SeqsUpTo(_, _)
SeqsUpTo(S, n) ==
    IF n = 0 THEN {<<>>}
    ELSE LET shorter == SeqsUpTo(S, n - 1)
         IN shorter \cup {Append(q, x) : q \in shorter, x \in S}

RawSequences == SeqsUpTo(RawListings, MaxListings)

Queries == {<<>>, <<"c", "a", "f", "e">>}
Locations == {<<>>}
MaxResultsInputs == {<<"2">>}

ProviderErrors == {"fetch-failure"}

\* The bodies /scrape may answer with, by the request's maxResults: {error},
\* {leads, stats} as collector and aggregator produce them, the same without
\* stats, and bodies that carry no leads array.
BodiesByMaxResults ==
    [maxResults \in MaxResultsInputs |->
        LET answers == {collect(raw, ClampMaxResults(ParseNat(maxResults))) :
                            raw \in RawSequences}
        IN {[error |-> Some(e), leads |-> Undefined, stats |-> Undefined] :
                e \in ProviderErrors}
           \cup {[error |-> Undefined, leads |-> Some(ls), stats |-> Some(summarize(ls))] :
                    ls \in answers}
           \cup {[error |-> Undefined, leads |-> Some(ls), stats |-> Undefined] :
                    ls \in answers}
           \cup {[error |-> Undefined, leads |-> Undefined, stats |-> Undefined],
                 [error |-> Undefined, leads |-> Undefined,
                  stats |-> Some(summarize(<<>>))]}]

Bodies(request) == BodiesByMaxResults[request.maxResults]

----------------------------------------------------------------------------
(* State *)

VARIABLES
    leads,            \* this.leads: Some(sequence of leads) or Undefined
    resultsContent,   \* #resultsContent: what the results area shows
    stats,            \* #stats display and the three counters' text
    loading,          \* #loading display and #scrapeBtn disabled / text
    exportSection,    \* #exportSection display
    successDivs,      \* success banners in #exportSection awaiting removal
    calls,            \* the startScraping calls suspended at an await
    effect            \* what the last handler run did outside the page

vars == <<leads, resultsContent, stats, loading, exportSection, successDivs,
          calls, effect>>

CallIds == 1..MaxCalls

IdleCall ==
    [pc |-> "idle",
     request |-> [query |-> <<>>, location |-> <<>>, maxResults |-> <<>>]]

InFlight == {c \in CallIds : calls[c].pc # "idle"}

\* Outward effects of a handler run: none, alert("No leads to export"), the
\* download of a CSV text, or an exception that leaves the handler.
NoEffect == [kind |-> "none", download |-> Undefined]
Alerted == [kind |-> "alert", download |-> Undefined]
Thrown == [kind |-> "thrown", download |-> Undefined]
Downloaded(text) == [kind |-> "downloaded", download |-> Some(text)]

GenericError == "An error occurred while scraping. Please try again."

----------------------------------------------------------------------------
(* The methods that write the DOM *)

showLoading(show) ==
    [display |-> IF show THEN "flex" ELSE "none",
     disabled |-> show,
     textContent |-> IF show THEN "Scraping..." ELSE " Start Scraping"]

showError(message) == [kind |-> "error", items |-> <<>>, message |-> message]

Placeholder ==
    [kind |-> "placeholder", items |-> <<>>,
     message |-> "Your scraped leads will appear here"]

NotAvailable == <<"N", "/", "A">>

\* The element built for one lead; index counts from 0.
createLeadElement(lead, index) ==
    [animationDelay |-> index,      \* in tenths of a second
     name |-> lead.name,
     address |-> IF TruthyText(lead.address) THEN lead.address[1] ELSE NotAvailable,
     phone |-> IF TruthyText(lead.phone) THEN lead.phone ELSE Undefined,
     website |-> IF TruthyText(lead.website) THEN lead.website ELSE Undefined,
     rating |-> IF TruthyNum(lead.rating)
                THEN Some([stars |-> lead.rating[1] \div 10,
                           text |-> RatingToText(lead.rating[1]),
                           reviews |-> IF TruthyNum(lead.reviews_count)
                                       THEN Some(NatToText(lead.reviews_count[1]))
                                       ELSE Undefined])
                ELSE Undefined]

\* What displayResults leaves in the results area for a leads array.
displayResults(ls) ==
    [kind |-> "leads",
     items |-> [i \in 1..Len(ls) |-> createLeadElement(ls[i], i - 1)],
     message |-> ""]

updateStats(st) ==
    [display |-> "grid",
     totalLeads |-> NatToText(st.total),
     withPhone |-> NatToText(st.with_phone),
     withWebsite |-> NatToText(st.with_website)]

----------------------------------------------------------------------------
(* Construction *)

Init ==
    /\ leads = Some(<<>>)
    /\ resultsContent = [kind |-> "initial", items |-> <<>>, message |-> ""]
    /\ stats = [display |-> "none", totalLeads |-> <<"0">>, withPhone |-> <<"0">>,
                withWebsite |-> <<"0">>]
    /\ loading = [display |-> "none", disabled |-> FALSE, textContent |-> "initial"]
    /\ exportSection = "none"
    /\ successDivs = 0
    /\ calls = [c \in CallIds |-> IdleCall]
    /\ effect = NoEffect

----------------------------------------------------------------------------
(* startScraping *)

\* A validation that lets every query through.
IsFalsyQueryNever(query) == FALSE

\* `!query`
IsFalsyQuery(query) == query = <<>>

\* The submit handler up to the first await: validation, showLoading(true),
\* clearResults() and the POST of /scrape.
startScraping(c, query, location, maxResults) ==
    /\ calls[c].pc = "idle"
    /\ \A d \in CallIds : d < c => calls[d].pc # "idle"    \* c names the new call
    /\ IF IsFalsyQuery(query)
       THEN /\ resultsContent' = showError("Please enter a search query")
            /\ effect' = NoEffect
            /\ UNCHANGED <<leads, stats, loading, exportSection, successDivs, calls>>
       ELSE /\ loading' = showLoading(TRUE)
            /\ resultsContent' = Placeholder
            /\ stats' = [stats EXCEPT !.display = "none"]
            /\ calls' = [calls EXCEPT ![c] =
                            [pc |-> "awaitFetch",
                             request |-> [query |-> query, location |-> location,
                                          maxResults |-> maxResults]]]
            /\ effect' = NoEffect
            /\ UNCHANGED <<leads, exportSection, successDivs>>

\* A catch block that also drops the held leads.
fetchRejectedDropsLeads(c) ==
    /\ calls[c].pc = "awaitFetch"
    /\ leads' = Some(<<>>)
    /\ resultsContent' = showError(GenericError)
    /\ loading' = showLoading(FALSE)
    /\ calls' = [calls EXCEPT ![c] = IdleCall]
    /\ effect' = NoEffect
    /\ UNCHANGED <<stats, exportSection, successDivs>>

\* fetch() rejects (network failure): catch, then finally.
fetchRejected(c) ==
    /\ calls[c].pc = "awaitFetch"
    /\ resultsContent' = showError(GenericError)
    /\ loading' = showLoading(FALSE)
    /\ calls' = [calls EXCEPT ![c] = IdleCall]
    /\ effect' = NoEffect
    /\ UNCHANGED <<leads, stats, exportSection, successDivs>>

\* fetch() resolves with a response; the call goes on to await response.json().
fetchResolved(c) ==
    /\ calls[c].pc = "awaitFetch"
    /\ calls' = [calls EXCEPT ![c].pc = "awaitJson"]
    /\ effect' = NoEffect
    /\ UNCHANGED <<leads, resultsContent, stats, loading, exportSection, successDivs>>

\* A catch without the finally block: showLoading(false) is never called.
jsonRejectedNoFinally(c) ==
    /\ calls[c].pc = "awaitJson"
    /\ resultsContent' = showError(GenericError)
    /\ calls' = [calls EXCEPT ![c] = IdleCall]
    /\ effect' = NoEffect
    /\ UNCHANGED <<leads, stats, loading, exportSection, successDivs>>

\* response.json() rejects (the body is not JSON): catch, then finally.
jsonRejected(c) ==
    /\ calls[c].pc = "awaitJson"
    /\ resultsContent' = showError(GenericError)
    /\ loading' = showLoading(FALSE)
    /\ calls' = [calls EXCEPT ![c] = IdleCall]
    /\ effect' = NoEffect
    /\ UNCHANGED <<leads, stats, exportSection, successDivs>>

\* A success path that appends the new leads to the held ones.
jsonResolvedAppends(c, data) ==
    /\ calls[c].pc = "awaitJson"
    /\ IF data.error # Undefined /\ data.error[1] # ""
       THEN /\ resultsContent' = showError(data.error[1])
            /\ UNCHANGED <<leads, stats, exportSection>>
       ELSE IF data.leads = Undefined \/ data.stats = Undefined
       THEN /\ leads' = data.leads
            /\ resultsContent' = showError(GenericError)
            /\ UNCHANGED <<stats, exportSection>>
       ELSE /\ leads' = IF leads = Undefined THEN data.leads
                        ELSE Some(leads[1] \o data.leads[1])
            /\ resultsContent' = displayResults(leads'[1])
            /\ stats' = updateStats(data.stats[1])
            /\ exportSection' = "block"
    /\ loading' = showLoading(FALSE)
    /\ calls' = [calls EXCEPT ![c] = IdleCall]
    /\ effect' = NoEffect
    /\ UNCHANGED successDivs

\* response.json() resolves with data: the rest of the try block, with the
\* TypeError of displayResults (no leads array) or updateStats (no stats)
\* caught, then finally.
jsonResolved(c, data) ==
    /\ calls[c].pc = "awaitJson"
    /\ IF data.error # Undefined /\ data.error[1] # ""
       THEN /\ resultsContent' = showError(data.error[1])
            /\ UNCHANGED <<leads, stats, exportSection>>
       ELSE /\ leads' = data.leads
            /\ IF data.leads = Undefined \/ data.stats = Undefined
               THEN /\ resultsContent' = showError(GenericError)
                    /\ UNCHANGED <<stats, exportSection>>
               ELSE /\ resultsContent' = displayResults(data.leads[1])
                    /\ stats' = updateStats(data.stats[1])
                    /\ exportSection' = "block"
    /\ loading' = showLoading(FALSE)
    /\ calls' = [calls EXCEPT ![c] = IdleCall]
    /\ effect' = NoEffect
    /\ UNCHANGED successDivs

----------------------------------------------------------------------------
(* exportToCSV *)

\* An export without the empty-array guard: the header row alone is downloaded.
exportToCSVUnguarded ==
    IF leads = Undefined
    THEN /\ effect' = Thrown
         /\ UNCHANGED <<leads, resultsContent, stats, loading, exportSection,
                        successDivs, calls>>
    ELSE /\ successDivs < MaxSuccessDivs
         /\ effect' = Downloaded(csvContent(leads[1]))
         /\ successDivs' = successDivs + 1
         /\ UNCHANGED <<leads, resultsContent, stats, loading, exportSection, calls>>

\* The click handler of #exportBtn.  `this.leads.length` throws a TypeError
\* when this.leads is undefined, and nothing catches it; an empty array gets
\* alert(NoLeadsAlert) and no file.
exportToCSV ==
    IF leads = Undefined
    THEN /\ effect' = Thrown
         /\ UNCHANGED <<leads, resultsContent, stats, loading, exportSection,
                        successDivs, calls>>
    ELSE IF Len(leads[1]) = 0
    THEN /\ effect' = Alerted
         /\ UNCHANGED <<leads, resultsContent, stats, loading, exportSection,
                        successDivs, calls>>
    ELSE /\ successDivs < MaxSuccessDivs
         /\ effect' = Downloaded(csvContent(leads[1]))
         /\ successDivs' = successDivs + 1
         /\ UNCHANGED <<leads, resultsContent, stats, loading, exportSection, calls>>

\* The setTimeout callback of showSuccessMessage, 3000 ms later.
removeSuccessDiv ==
    /\ successDivs > 0
    /\ successDivs' = successDivs - 1
    /\ effect' = NoEffect
    /\ UNCHANGED <<leads, resultsContent, stats, loading, exportSection, calls>>

----------------------------------------------------------------------------
(* Specification *)

Next ==
    \/ \E c \in CallIds, query \in Queries, location \in Locations,
          maxResults \in MaxResultsInputs :
            startScraping(c, query, location, maxResults)
    \/ \E c \in CallIds : fetchRejected(c)
    \/ \E c \in CallIds : fetchResolved(c)
    \/ \E c \in CallIds : jsonRejected(c)
    \/ \E c \in CallIds :
            /\ calls[c].pc = "awaitJson"
            /\ \E data \in Bodies(calls[c].request) : jsonResolved(c, data)
    \/ exportToCSV
    \/ removeSuccessDiv

Spec == Init /\ [][Next]_vars

\* The steps by which the pending request of call c settles.
settle(c) ==
    \/ fetchRejected(c)
    \/ fetchResolved(c)
    \/ jsonRejected(c)
    \/ (/\ calls[c].pc = "awaitJson"
        /\ \E data \in Bodies(calls[c].request) : jsonResolved(c, data))

\* Every pending /scrape request settles.
Settles == \A c \in CallIds : WF_vars(settle(c))

FairSpec == Spec /\ Settles

----------------------------------------------------------------------------
(* Claims *)

HeldLeads == IF leads = Undefined THEN <<>> ELSE leads[1]

\* A successful scrape has happened: showExportSection(true) is never undone.
HasSucceeded == exportSection = "block"

\* The leads on display are the held ones, with their stats.
Ready ==
    /\ leads # Undefined
    /\ resultsContent = displayResults(HeldLeads)
    /\ stats.display = "grid"

\* C1: startScraping with an empty query shows an error, issues no POST
\* (no call becomes pending) and changes neither the held leads nor the
\* loading indicator / submit button.
C1_EmptyQueryIsRejected ==
    [][\A c \in CallIds, location \in Locations, maxResults \in MaxResultsInputs :
          startScraping(c, <<>>, location, maxResults)
              => /\ resultsContent'.kind = "error"
                 /\ calls' = calls
                 /\ leads' = leads
                 /\ loading' = loading]_vars

\* An empty query was just rejected while leads are held and a scrape is pending.
C1_Witness ==
    /\ resultsContent = showError("Please enter a search query")
    /\ HeldLeads # <<>>
    /\ InFlight # {}
    /\ loading.disabled

\* C2: at most one scrape request is in flight at any time.
C2_AtMostOneInFlight == Cardinality(InFlight) <= 1

\* Call c ends in a rejected fetch, an unparsable body or an error response.
scrapeFails(c) ==
    \/ fetchRejected(c)
    \/ jsonRejected(c)
    \/ (/\ calls[c].pc = "awaitJson"
        /\ \E data \in Bodies(calls[c].request) :
              data.error # Undefined /\ jsonResolved(c, data))

\* C3 as stated: after a failed scrape (rejected fetch, unparsable body or
\* error response) that follows a success, the leads of that success are
\* unchanged, still displayed in the results area, and still exported.
\* (Read on the plainest case: c is the only pending call and was started
\* after the success, the placeholder of its clearResults() still showing.)
C3_FailureKeepsLeadsDisplayed ==
    [][\A c \in CallIds :
          (/\ scrapeFails(c)
           /\ HasSucceeded
           /\ HeldLeads # <<>>
           /\ InFlight = {c}
           /\ resultsContent = Placeholder)
             => /\ leads' = leads
                /\ resultsContent' = displayResults(HeldLeads')]_vars

\* C3 as amended: such a failure leaves the held leads as they were, and
\* they are what exportToCSV exports next, but the results area shows the
\* error message and not the leads.
C3_FailureKeepsLeadsHeld ==
    [][/\ \A c \in CallIds :
            (scrapeFails(c) /\ HasSucceeded)
               => /\ leads' = leads
                  /\ resultsContent'.kind = "error"
       /\ (resultsContent.kind = "error" /\ effect'.kind = "downloaded")
             => /\ leads' = leads
                /\ effect'.download = Some(csvContent(HeldLeads))]_vars

\* After a success, the provider's error is on display and the leads are held.
C3_Witness ==
    /\ \E e \in ProviderErrors : resultsContent = showError(e)
    /\ HasSucceeded
    /\ HeldLeads # <<>>
    /\ stats.display = "none"

\* C4: no handler lets an exception escape.
C4_NothingThrown == effect.kind # "thrown"

\* C5: whenever the stats panel is shown, its three counters are those of the
\* held leads.
C5_StatsMatchHeldLeads ==
    stats.display = "grid"
        => /\ leads # Undefined
           /\ stats.totalLeads = NatToText(summarize(HeldLeads).total)
           /\ stats.withPhone = NatToText(summarize(HeldLeads).with_phone)
           /\ stats.withWebsite = NatToText(summarize(HeldLeads).with_website)

C7_ExportRoundTrips ==
    (effect.kind = "downloaded" /\ Ready)
        => LET parsed == ParseCSV(effect.download[1])
           IN /\ parsed.ok
              /\ Len(parsed.rows) = Len(HeldLeads) + 1
              /\ parsed.rows[1] = headers
              /\ \A i \in 1..Len(HeldLeads) :
                    /\ Len(parsed.rows[i + 1]) = Len(headers)
                    /\ \A k \in TextColumns :
                          parsed.rows[i + 1][k] = RowFields(HeldLeads[i])[k]

\* C8 as stated: exporting an empty collection yields the header row alone.
C8_EmptyExportIsHeaderOnly ==
    (effect.kind # "none" /\ leads = Some(<<>>))
        => effect.download = Some(Join(headers, <<",">>))

\* C8 as amended: exporting an empty collection yields no document at all,
\* only the alert; a document is produced for a non-empty collection only,
\* and it begins with the header row.
C8_EmptyExportIsRefused ==
    /\ (effect.kind # "none" /\ leads = Some(<<>>))
          => (effect.kind = "alert" /\ effect.download = Undefined)
    /\ effect.download # Undefined
          => /\ HeldLeads # <<>>
             /\ SubSeq(effect.download[1], 1, Len(Join(headers, <<",">>)))
                    = Join(headers, <<",">>)

\* Export was clicked while the held collection was empty.
C8_Witness ==
    /\ effect = Alerted
    /\ leads = Some(<<>>)

\* The row of a lead with its text fields quoted as exportToCSV quotes them
\* and Rating and Reviews as the lead's values: bare, and empty only when
\* the value is absent.
FaithfulRow(lead) ==
    Join(<< Quoted(lead.name),
            Quoted(TextOrEmpty(lead.address)),
            Quoted(TextOrEmpty(lead.phone)),
            Quoted(TextOrEmpty(lead.website)),
            RowFields(lead)[5],
            RowFields(lead)[6],
            Quoted(TextOrEmpty(lead.category)) >>, <<",">>)

\* C9: when the leads on display are exported, the Rating and Reviews fields
\* of each row are the lead's values as bare text, empty exactly when absent.
C9_NumericFieldsAreFaithful ==
    (effect.kind = "downloaded" /\ Ready)
        => effect.download[1]
              = Join(<<Join(headers, <<",">>)>>
                        \o [i \in 1..Len(HeldLeads) |-> FaithfulRow(HeldLeads[i])],
                     <<"\n">>)

\* C10: a call whose request settles ends in exactly one of Ready (leads and
\* stats shown) and Failed (error shown), with the loading indicator off and
\* the submit button enabled; and every pending call does end.
C10_EveryCallEnds ==
    /\ [][\A c \in CallIds :
            (calls[c].pc # "idle" /\ calls'[c].pc = "idle")
               => /\ loading' = showLoading(FALSE)
                  /\ Ready' # (resultsContent'.kind = "error")]_vars
    /\ \A c \in CallIds : (calls[c].pc # "idle") ~> (calls[c].pc = "idle")

\* A call has ended Ready with nothing else pending.
C10_Witness ==
    /\ Ready
    /\ HeldLeads # <<>>
    /\ InFlight = {}
    /\ loading = showLoading(FALSE)

====
